---- MODULE Spec2Model ----
(***************************************************************************)
(* A model of ml/rl/training/ddpg_trainer.py: the DDPG trainer (one train  *)
(* call as the sequence of its steps, internal_prediction, the soft        *)
(* update), the actor and critic network constructors and the              *)
(* Ornstein-Uhlenbeck noise process.                                       *)
(*                                                                         *)
(* Numbers.  Real values are exact fractions.  Parameters, states, actions *)
(* and Q-values are fixed-point integers over the denominator Unit;       *)
(* gamma and tau are pairs <<numerator, denominator>>; a Bellman target is *)
(* a record [num, den]; the values internal_prediction returns are        *)
(* integers over the denominator PredDen.  float32 rounding is not         *)
(* modelled.                                                               *)
(*                                                                         *)
(* Networks.  The trainer's networks are built by the constructors below   *)
(* from layers = [state_dim, 1, action_dim] with state_dim = action_dim =  *)
(* 1, so every weight tensor has one element, except the critic's second   *)
(* layer, which has two (hidden unit, action).  Batch normalisation is not *)
(* modelled in the forward pass (only the actor's training/eval flag is),  *)
(* and the optimizers' steps are a nondeterministic change of the          *)
(* parameters the optimizer was constructed with.                          *)
(***************************************************************************)
EXTENDS Integers, Sequences, FiniteSets, TLC

\* ------------------------------------------------------------------ bounds
MaxTrainSteps == 2      \* train calls that begin their update in one behaviour
MaxBatch == 2           \* rows of a training batch
MaxLayers == 4          \* longest layers list given to a network constructor

\* --------------------------------------------------------------- constants
ThetaNum == 3           \* theta = 0.15 = 3/20
ThetaDen == 20
SigmaNum == 1           \* sigma = 0.02 = 1/50
SigmaDen == 50
Mu == 0                 \* mu = 0

VARIABLES
    gamma,              \* self.gamma, <<num, den>>
    tau,                \* self.tau, <<num, den>>
    action_range,       \* self.action_range: <<>> is None, <<r>> is the number r
    actor,              \* self.actor.parameters(): a list of tensors
    actor_target,       \* self.actor_target.parameters()
    critic,             \* self.critic.parameters()
    critic_target,      \* self.critic_target.parameters()
    storage,            \* the parameter storage each of the four networks writes to
    actor_training,     \* self.actor.training (TRUE: train mode, FALSE: eval mode)
    actor_grad,         \* the losses whose gradient is accumulated in the actor's .grad
    critic_grad,        \* the losses whose gradient is accumulated in the critic's .grad
    noise,              \* self.noise_generator.noise, over NoiseDen
    pc,                 \* the position of the train call in progress, or "idle"
    training_samples,   \* train's argument (a tuple of fields), <<>> when idle
    evaluator,          \* train's argument
    episode_values,     \* train's argument
    time_diffs,         \* train's local
    target_q_values,    \* train's local
    critic_predictions, \* train's local
    pre,                \* the four parameter lists when the last train call began
    critic_step_grad,   \* the gradient the last critic_optimizer.step() used
    train_steps,        \* train calls that have begun their update
    result,             \* how the last completed call ended, and what it returned
    layers,             \* a network constructor's argument
    action_dim,         \* a network constructor's argument
    net                 \* what the constructor call produced

vars == <<gamma, tau, action_range, actor, actor_target, critic, critic_target,
          storage, actor_training, actor_grad, critic_grad, noise, pc, training_samples,
          evaluator, episode_values, time_diffs, target_q_values,
          critic_predictions, pre, critic_step_grad, train_steps, result,
          layers, action_dim, net>>

\* ----------------------------------------------------------------- helpers
RECURSIVE Pow(_, _)
Pow(b, e) == IF e = 0 THEN 1 ELSE b * Pow(b, e - 1)

Max(a, b) == IF a >= b THEN a ELSE b
Min(a, b) == IF a <= b THEN a ELSE b

\* The fixed-point denominator of parameters and network values.  Live parameters
\* are multiples of Half (0.5) and every tau is over 1 or 2, so MaxTrainSteps
\* blends are exact over Unit.
Unit == Pow(2, MaxTrainSteps + 1)
Half == Unit \div 2

\* Fixed-point product of two values over Unit.
FMul(a, b) == (a * b) \div Unit

\* The denominator of the noise vector (theta and sigma are exact over it) and of
\* the values internal_prediction returns.
NoiseDen == ThetaDen * SigmaDen
PredDen == Unit * NoiseDen

\* Python's t[i]: the element, or an IndexError
At(t, i) == IF i < Len(t) THEN [ok |-> TRUE, value |-> t[i + 1]] ELSE [ok |-> FALSE]

\* ------------------------------------------------- ActorNet and CriticNet
Linear(in_features, out_features) ==
    [in_features |-> in_features, out_features |-> out_features]

\* What a failed constructor leaves: no network.
AssertionError == [ok |-> FALSE, layers |-> <<>>, batch_norm_ops |-> <<>>]

\* ActorNet.__init__: for i, layer in enumerate(layers[1:]):
\*   Linear(layers[i], layer), BatchNorm1d(layers[i])
ActorNet(ls) ==
    IF ~(Len(ls) >= 3) THEN AssertionError
    ELSE [ok |-> TRUE,
          layers |-> [i \in 1..(Len(ls) - 1) |-> Linear(ls[i], ls[i + 1])],
          batch_norm_ops |-> [i \in 1..(Len(ls) - 1) |-> ls[i]]]

CriticNetNoActionWidth(ls, adim) ==
    IF ~(Len(ls) >= 3) THEN AssertionError
    ELSE [ok |-> TRUE,
          layers |-> [i \in 1..(Len(ls) - 1) |-> Linear(ls[i], ls[i + 1])],
          batch_norm_ops |-> [i \in 1..2 |-> ls[i]]]

\* CriticNet.__init__: the second layer (i = 1 in Python) takes the action too;
\* batch norm only on the first two layers.
CriticNet(ls, adim) ==
    IF ~(Len(ls) >= 3) THEN AssertionError
    ELSE [ok |-> TRUE,
          layers |-> [i \in 1..(Len(ls) - 1) |->
                         IF i = 2 THEN Linear(ls[i] + adim, ls[i + 1])
                                  ELSE Linear(ls[i], ls[i + 1])],
          batch_norm_ops |-> [i \in 1..2 |-> ls[i]]]

\* ------------------------------------------------------------ parameters
\* nn.Module.parameters() of a freshly constructed network: per linear layer a
\* weight tensor (out_features * in_features elements) and a bias tensor
\* (out_features elements).  The uniform initialisers draw the weights; here every
\* weight is 0.5 and every bias 0.
Parameters(n) ==
    [k \in 1..(2 * Len(n.layers)) |->
        LET l == n.layers[(k + 1) \div 2] IN
        IF k % 2 = 1 THEN [j \in 1..(l.in_features * l.out_features) |-> Half]
                     ELSE [j \in 1..l.out_features |-> 0]]

\* self.actor_params.activations / self.critic_params.activations
Activations == <<"relu", "linear">>

\* x = fc_func(x) if activation == "linear" else activation_func(fc_func(x))
Activation(name, x) == IF name = "linear" THEN x ELSE Max(0, x)

\* ActorNet.forward on one row of width 1: for i, activation in
\* enumerate(self.activations): x = activation(self.layers[i](x))
RECURSIVE ActorLayers(_, _, _)
ActorLayers(p, x, i) ==
    IF i > Len(Activations) THEN x
    ELSE ActorLayers(p,
                     Activation(Activations[i],
                                FMul(p[2 * i - 1][1], x) + p[2 * i][1]),
                     i + 1)

ActorForward(p, state) == ActorLayers(p, state, 1)

\* CriticNet.forward on one row: the action is concatenated to the input of the
\* second layer (i == 1 in Python).
RECURSIVE CriticLayers(_, _, _, _)
CriticLayers(p, x, action, i) ==
    IF i > Len(Activations) THEN x
    ELSE LET w == p[2 * i - 1]
             b == p[2 * i]
             fc == IF i = 2 THEN FMul(w[1], x) + FMul(w[2], action) + b[1]
                            ELSE FMul(w[1], x) + b[1]
         IN  CriticLayers(p, Activation(Activations[i], fc), action, i + 1)

CriticForward(p, state, action) == CriticLayers(p, state, action, 1)

\* ------------------------------------------------------------ soft update
SoftUpdateSwapped(network, target_network, t) ==
    [k \in 1..Len(target_network) |->
        IF k > Len(network) THEN target_network[k]
        ELSE [j \in 1..Len(target_network[k]) |->
                 (t[1] * target_network[k][j]
                    + (t[2] - t[1]) * network[k][j]) \div t[2]]]

\* DDPGTrainer._soft_update: for t_param, param in zip(...):
\*   t_param.data.copy_(tau * param.data + (1.0 - tau) * t_param.data)
\* The value is the target's new parameter list; the live network is only read.
SoftUpdate(network, target_network, t) ==
    [k \in 1..Len(target_network) |->
        IF k > Len(network) THEN target_network[k]
        ELSE [j \in 1..Len(target_network[k]) |->
                 (t[1] * network[k][j]
                    + (t[2] - t[1]) * target_network[k][j]) \div t[2]]]

\* ---------------------------------------------- OrnsteinUhlenbeckProcessNoise
\* __init__ and clear(): np.zeros(action_dim)
Zeros(n) == [j \in 1..n |-> 0]

\* get_noise with the draw eps (np.random.randn(action_dim), whole numbers here):
\* what it returns and the internal state it leaves.  The code returns
\* self.noise + dx and does not assign self.noise.
GetNoise(n, eps) ==
    LET term_1 == [j \in 1..Len(n) |->
                      (ThetaNum * (Mu * NoiseDen - n[j])) \div ThetaDen]
        dx == [j \in 1..Len(n) |->
                  term_1[j] + (SigmaNum * eps[j] * NoiseDen) \div SigmaDen]
    IN  [value |-> [j \in 1..Len(n) |-> n[j] + dx[j]], noise |-> n]

\* ------------------------------------------------------------ DDPGTrainer
\* env_details of the modelled trainer
EnvDetails == [state_dim |-> 1, action_dim |-> 1]

\* parameters.rl.gamma, parameters.rl.target_update_rate, env_details["action_range"]
Configs ==
    { [gamma |-> <<3, 4>>,  tau |-> <<1, 2>>, action_range |-> <<2>>],
      [gamma |-> <<1, 2>>,  tau |-> <<1, 1>>, action_range |-> <<>>],
      [gamma |-> <<1, 1>>,  tau |-> <<0, 1>>, action_range |-> <<1>>] }

\* parameters.actor_training.layers / parameters.critic_training.layers as configured
LayersConfig == <<0, 1, 0>>

\* self.actor_params.layers[0] = state_dim; self.actor_params.layers[-1] = action_dim
ActorLayersOf(ls) ==
    [[ls EXCEPT ![1] = EnvDetails.state_dim] EXCEPT ![Len(ls)] = EnvDetails.action_dim]

\* self.critic_params.layers[0] = state_dim; self.critic_params.layers[-1] = 1
CriticLayersOf(ls) ==
    [[ls EXCEPT ![1] = EnvDetails.state_dim] EXCEPT ![Len(ls)] = 1]

NoNet == [kind |-> "none"]
NoCall == [op |-> "__init__"]
Running == [op |-> "train", status |-> "running"]

DeepCopyShared(id, fresh) == id

\* deepcopy(network): the copy's parameters live in storage of their own (fresh),
\* not in the storage id of the network copied
DeepCopy(id, fresh) == fresh

\* whether the networks a and b keep their parameters in the same storage, so
\* that a write to one is a write to the other
Shares(a, b) == storage[a] = storage[b]

Snapshot(a, at, c, ct) ==
    [actor |-> a, actor_target |-> at, critic |-> c, critic_target |-> ct]

\* DDPGTrainer.__init__ with the configuration c
TrainerInit(c) ==
    /\ gamma = c.gamma
    /\ tau = c.tau
    /\ action_range = c.action_range
    /\ actor = Parameters(ActorNet(ActorLayersOf(LayersConfig)))
    /\ actor_target = actor
    /\ critic = Parameters(CriticNet(CriticLayersOf(LayersConfig), EnvDetails.action_dim))
    /\ critic_target = critic
    /\ storage = [actor |-> 1, actor_target |-> DeepCopy(1, 2),
                  critic |-> 3, critic_target |-> DeepCopy(3, 4)]
    /\ actor_training = TRUE
    /\ actor_grad = {}
    /\ critic_grad = {}
    /\ noise = Zeros(EnvDetails.action_dim)
    /\ pc = "idle"
    /\ training_samples = <<>>
    /\ evaluator = "None"
    /\ episode_values = "None"
    /\ time_diffs = <<>>
    /\ target_q_values = <<>>
    /\ critic_predictions = <<>>
    /\ pre = Snapshot(actor, actor_target, critic, critic_target)
    /\ critic_step_grad = {}
    /\ train_steps = 0
    /\ result = NoCall

Init ==
    /\ \E c \in Configs : TrainerInit(c)
    /\ layers = <<>>
    /\ action_dim = 0
    /\ net = NoNet

\* ------------------------------------------------------------------ train
\* The rows a batch is made of.  aux is the field at position 7 (counting from 0)
\* of a nine-field batch, which train does not read.
Rows ==
    { [state |-> 0, action |-> 1, reward |-> 1, next_state |-> 1, next_action |-> 0,
       terminal |-> FALSE, possible_next_actions |-> 0, aux |-> 3, time_diff |-> 1],
      [state |-> 1, action |-> 0, reward |-> 2, next_state |-> 1, next_action |-> 1,
       terminal |-> TRUE, possible_next_actions |-> 0, aux |-> 4, time_diff |-> 2],
      [state |-> 1, action |-> 1, reward |-> 0, next_state |-> 1, next_action |-> 0,
       terminal |-> FALSE, possible_next_actions |-> 0, aux |-> 1, time_diff |-> 5] }

Batches == UNION { [1..n -> Rows] : n \in 2..MaxBatch }

Field(b, name) == [i \in 1..Len(b) |-> b[i][name]]

\* A batch as a tuple of nf fields: the eight fields with time_diff last (nf = 8);
\* nine fields, with aux at position 7 and time_diff at position 8 (nf = 9); the
\* nine and one more (nf = 10).
Pack(b, nf) ==
    LET head == << Field(b, "state"), Field(b, "action"), Field(b, "reward"),
                   Field(b, "next_state"), Field(b, "next_action"),
                   Field(b, "terminal"), Field(b, "possible_next_actions") >>
        nine == Append(Append(head, Field(b, "aux")), Field(b, "time_diff"))
    IN  IF nf = 8 THEN Append(head, Field(b, "time_diff"))
        ELSE IF nf = 9 THEN nine
        ELSE Append(nine, Field(b, "aux"))

\* evaluator and episode_values as train is called
EvaluatorArgs == { <<"None", "None">>, <<"evaluator", "episode_values">>,
                   <<"evaluator", "None">> }

\* the calls of train: <<training_samples, evaluator, episode_values>>
TrainCalls ==
    { <<Pack(b, 9), ea[1], ea[2]>> : b \in Batches, ea \in EvaluatorArgs }
        \cup { <<Pack(b, nf), "None", "None">> : b \in Batches, nf \in {8, 10} }

ReadTimeDiffsAtSeven(ts) == At(ts, 7)

\* time_diffs = torch.tensor(training_samples[8], dtype=torch.float32)
ReadTimeDiffs(ts) == At(ts, 8)

TargetQValuesFixedGamma(rewards, not_done_mask, q_s2_a2, tds, g) ==
    [i \in 1..Len(rewards) |->
        [num |-> rewards[i] * g[2] + g[1] * (not_done_mask[i] * q_s2_a2[i]),
         den |-> g[2]]]

\* filtered_q_s2_a2 = not_done_mask * q_s2_a2
\* target_q_values = rewards + (discount_tensor.pow(time_diffs) * filtered_q_s2_a2)
\* with discount g = <<num, den>>, as the exact fraction num / den
TargetQValues(rewards, not_done_mask, q_s2_a2, tds, g) ==
    [i \in 1..Len(rewards) |->
        [num |-> rewards[i] * Pow(g[2], tds[i])
                   + Pow(g[1], tds[i]) * (not_done_mask[i] * q_s2_a2[i]),
         den |-> Pow(g[2], tds[i])]]

\* train, lines 81-103: read the batch, build the critic's predictions and targets
TrainBegin(ts, ev, epv) ==
    /\ pc = "idle"
    /\ train_steps < MaxTrainSteps
    /\ LET f0 == At(ts, 0)
           f1 == At(ts, 1)
           f2 == At(ts, 2)
           f3 == At(ts, 3)
           f8 == ReadTimeDiffs(ts)
           f5 == At(ts, 5)
       IN  IF ~(f0.ok /\ f1.ok /\ f2.ok /\ f3.ok /\ f8.ok /\ f5.ok)
           THEN \* IndexError, raised before anything is computed
                /\ result' = [op |-> "train", status |-> "IndexError",
                              reported |-> FALSE, fields |-> Len(ts)]
                /\ UNCHANGED <<pc, training_samples, evaluator, episode_values,
                               time_diffs, target_q_values, critic_predictions, pre,
                               train_steps>>
           ELSE LET n == Len(f2.value)
                    states == [i \in 1..n |-> f0.value[i] * Unit]
                    actions == [i \in 1..n |-> f1.value[i] * Unit]
                    rewards == [i \in 1..n |-> f2.value[i] * Unit]
                    next_states == [i \in 1..n |-> f3.value[i] * Unit]
                    done == [i \in 1..n |-> IF f5.value[i] THEN 1 ELSE 0]
                    not_done_mask == [i \in 1..n |-> 1 - done[i]]
                    q_s1_a1 == [i \in 1..n |->
                                   CriticForward(critic, states[i], actions[i])]
                    next_actions == [i \in 1..n |->
                                        ActorForward(actor_target, next_states[i])]
                    q_s2_a2 == [i \in 1..n |->
                                   CriticForward(critic_target, next_states[i],
                                                 next_actions[i])]
                IN  /\ training_samples' = ts
                    /\ evaluator' = ev
                    /\ episode_values' = epv
                    /\ time_diffs' = f8.value
                    /\ target_q_values' =
                           TargetQValues(rewards, not_done_mask, q_s2_a2,
                                         f8.value, gamma)
                    /\ critic_predictions' = q_s1_a1
                    /\ pre' = Snapshot(actor, actor_target, critic, critic_target)
                    /\ train_steps' = train_steps + 1
                    /\ pc' = "critic_step"
                    /\ result' = Running
    /\ UNCHANGED <<gamma, tau, action_range, storage, actor, actor_target, critic,
                   critic_target, actor_training, actor_grad, critic_grad, noise,
                   critic_step_grad, layers, action_dim, net>>

\* torch.optim.Adam's step on the parameters the optimizer holds: every element
\* moves by the step d
AdamSteps == {Half, 0 - Half}
AdamStep(params, d) ==
    [k \in 1..Len(params) |-> [j \in 1..Len(params[k]) |-> params[k][j] - d]]

\* loss.backward() adds the loss's gradient to the .grad of the parameters it
\* reaches
Backward(grad, loss) == grad \cup {loss}

CriticZeroGradSkipped(grad) == grad

\* self.critic_optimizer.zero_grad()
CriticZeroGrad(grad) == {}

\* self.actor_optimizer.zero_grad()
ActorZeroGrad(grad) == {}

\* lines 104-106: zero_grad, loss_critic.backward(), critic_optimizer.step().
\* loss_critic reaches the critic's parameters only: the actions are the batch's
\* and the target value is detached.
CriticStep ==
    /\ pc = "critic_step"
    /\ \E d \in AdamSteps :
          LET g == Backward(CriticZeroGrad(critic_grad), "loss_critic")
              stepped == AdamStep(critic, d)
          IN  /\ critic_grad' = g
              /\ critic_step_grad' = g
              /\ critic' = stepped
              /\ critic_target' = IF Shares("critic", "critic_target")
                                  THEN stepped ELSE critic_target
    /\ pc' = "actor_step"
    /\ UNCHANGED <<gamma, tau, action_range, storage, actor, actor_target,
                   actor_training, actor_grad, noise, training_samples, evaluator,
                   episode_values, time_diffs, target_q_values, critic_predictions,
                   pre, train_steps, result, layers, action_dim, net>>

\* lines 110-113: loss_actor = -critic(states, actor(states)).sum(), zero_grad of
\* the actor's optimizer, backward (through the critic into the actor), step of
\* the actor's optimizer, which holds self.actor.parameters() only.
ActorStep ==
    /\ pc = "actor_step"
    /\ \E d \in AdamSteps :
          /\ actor_grad' = Backward(ActorZeroGrad(actor_grad), "loss_actor")
          /\ critic_grad' = Backward(critic_grad, "loss_actor")
          /\ actor' = AdamStep(actor, d)
          /\ actor_target' = IF Shares("actor", "actor_target")
                             THEN AdamStep(actor, d) ELSE actor_target
    /\ pc' = "soft_update"
    /\ UNCHANGED <<gamma, tau, action_range, storage, critic, critic_target,
                   actor_training, noise, training_samples, evaluator,
                   episode_values, time_diffs, target_q_values, critic_predictions,
                   pre, critic_step_grad, train_steps, result, layers, action_dim,
                   net>>

\* lines 116-117
SoftUpdateStep ==
    /\ pc = "soft_update"
    /\ actor_target' = SoftUpdate(actor, actor_target, tau)
    /\ critic_target' = SoftUpdate(critic, critic_target, tau)
    /\ actor' = IF Shares("actor", "actor_target")
                THEN SoftUpdate(actor, actor_target, tau) ELSE actor
    /\ critic' = IF Shares("critic", "critic_target")
                 THEN SoftUpdate(critic, critic_target, tau) ELSE critic
    /\ pc' = "report"
    /\ UNCHANGED <<gamma, tau, action_range, storage, actor_training,
                   actor_grad, critic_grad, noise, training_samples, evaluator,
                   episode_values, time_diffs, target_q_values, critic_predictions,
                   pre, critic_step_grad, train_steps, result, layers, action_dim,
                   net>>

\* lines 119-125: the evaluator's assertion and report, then train returns
Report ==
    /\ pc = "report"
    /\ result' =
          IF evaluator # "None"
          THEN IF episode_values # "None"
               THEN [op |-> "train", status |-> "returned", reported |-> TRUE]
               ELSE [op |-> "train", status |-> "AssertionError", reported |-> FALSE]
          ELSE [op |-> "train", status |-> "returned", reported |-> FALSE]
    /\ pc' = "idle"
    /\ training_samples' = <<>>
    /\ evaluator' = "None"
    /\ episode_values' = "None"
    /\ time_diffs' = <<>>
    /\ target_q_values' = <<>>
    /\ critic_predictions' = <<>>
    /\ UNCHANGED <<gamma, tau, action_range, storage, actor, actor_target, critic,
                   critic_target, actor_training, actor_grad, critic_grad, noise,
                   pre, critic_step_grad, train_steps, layers, action_dim, net>>

Train == \E c \in TrainCalls : TrainBegin(c[1], c[2], c[3])

\* ---------------------------------------------------- internal_prediction
\* rows of states: width 1 is the trainer's state_dim, width 2 is malformed
StateRows == { <<0>>, <<1>>, <<0, 0>> }
PredictionStates == UNION { [1..n -> StateRows] : n \in {1, 2} }

\* np.random.randn(action_dim): the draws of one get_noise call
Draws == { <<0 - 1>>, <<1>> }

\* if self.action_range: (None and 0 are both false)
Truthy(r) == r # <<>> /\ r[1] # 0

NoisyRowsShared(actions, n, eps) ==
    IF Len(actions) = 0 THEN [actions |-> <<>>, samples |-> <<>>, noise |-> n]
    ELSE LET g == GetNoise(n, eps[1])
         IN  [actions |-> [i \in 1..Len(actions) |->
                              actions[i] * NoiseDen + g.value[1] * Unit],
              samples |-> <<g.value>>,
              noise |-> g.noise]

\* actions = [x + (self.noise.get_noise()) for x in actions]: get_noise is called
\* once per row, each call with its own draw, from the state the call before left.
\* samples are the vectors the calls returned, in order.
RECURSIVE NoisyRows(_, _, _)
NoisyRows(actions, n, eps) ==
    IF Len(actions) = 0 THEN [actions |-> <<>>, samples |-> <<>>, noise |-> n]
    ELSE LET g == GetNoise(n, eps[1])
             rest == NoisyRows(Tail(actions), g.noise, Tail(eps))
         IN  [actions |-> <<actions[1] * NoiseDen + g.value[1] * Unit>> \o rest.actions,
              samples |-> <<g.value>> \o rest.samples,
              noise |-> rest.noise]

ScaleUnclipped(r, a) == r * a

\* self.action_range * np.clip(action, -1, 1), over PredDen
ClipScale(r, a) == r * Max(0 - PredDen, Min(PredDen, a))

\* internal_prediction(states, noisy) with the draws eps (one per row when noisy)
InternalPrediction(states, noisy, eps) ==
    /\ pc = "idle"
    /\ IF \E i \in 1..Len(states) : Len(states[i]) # EnvDetails.state_dim
       THEN \* self.actor.eval(), then the forward pass raises: self.actor.train()
            \* is not reached
            /\ actor_training' = FALSE
            /\ noise' = noise
            /\ result' = [op |-> "internal_prediction", status |-> "raised",
                          states |-> states, noisy |-> noisy]
       ELSE LET raw == [i \in 1..Len(states) |->
                           ActorForward(actor, states[i][1] * Unit)]
                noisy_rows == NoisyRows(raw, noise, eps)
                actions == IF noisy THEN noisy_rows.actions
                           ELSE [i \in 1..Len(raw) |-> raw[i] * NoiseDen]
            IN  /\ actor_training' = TRUE
                /\ noise' = IF noisy THEN noisy_rows.noise ELSE noise
                /\ result' =
                      [op |-> "internal_prediction", status |-> "returned",
                       states |-> states, noisy |-> noisy,
                       samples |-> IF noisy THEN noisy_rows.samples ELSE <<>>,
                       actions |-> IF Truthy(action_range)
                                   THEN [i \in 1..Len(actions) |->
                                            ClipScale(action_range[1], actions[i])]
                                   ELSE actions]
    /\ UNCHANGED <<gamma, tau, action_range, storage, actor, actor_target, critic,
                   critic_target, actor_grad, critic_grad, pc, training_samples,
                   evaluator, episode_values, time_diffs, target_q_values,
                   critic_predictions, pre, critic_step_grad, train_steps, layers,
                   action_dim, net>>

Predict ==
    \E states \in PredictionStates, noisy \in BOOLEAN :
        \E eps \in (IF noisy THEN [1..Len(states) -> Draws] ELSE {<<>>}) :
            InternalPrediction(states, noisy, eps)

\* a direct call of self.noise_generator.get_noise()
GetNoiseCall ==
    /\ pc = "idle"
    /\ \E eps \in Draws :
          LET g == GetNoise(noise, eps)
          IN  /\ noise' = g.noise
              /\ result' = [op |-> "get_noise", value |-> g.value]
    /\ UNCHANGED <<gamma, tau, action_range, storage, actor, actor_target, critic,
                   critic_target, actor_training, actor_grad, critic_grad, pc,
                   training_samples, evaluator, episode_values, time_diffs,
                   target_q_values, critic_predictions, pre, critic_step_grad,
                   train_steps, layers, action_dim, net>>

\* a direct call of self.noise_generator.clear()
Clear ==
    /\ pc = "idle"
    /\ noise' = Zeros(Len(noise))
    /\ result' = [op |-> "clear"]
    /\ UNCHANGED <<gamma, tau, action_range, storage, actor, actor_target, critic,
                   critic_target, actor_training, actor_grad, critic_grad, pc,
                   training_samples, evaluator, episode_values, time_diffs,
                   target_q_values, critic_predictions, pre, critic_step_grad,
                   train_steps, layers, action_dim, net>>

Next ==
    \/ Train
    \/ CriticStep
    \/ ActorStep
    \/ SoftUpdateStep
    \/ Report
    \/ Predict
    \/ GetNoiseCall
    \/ Clear

Spec == Init /\ [][Next]_vars

\* --------------------------------------------- the network constructors alone
LayerWidths == {1, 2}
LayerLists == UNION { [1..n -> LayerWidths] : n \in 0..MaxLayers }

NetInit ==
    /\ TrainerInit(CHOOSE c \in Configs : c.action_range = <<>>)
    /\ layers \in LayerLists
    /\ action_dim \in LayerWidths
    /\ net = NoNet

trainer_vars == <<gamma, tau, action_range, storage, actor, actor_target, critic,
                  critic_target, actor_training, actor_grad, critic_grad, noise, pc,
                  training_samples, evaluator, episode_values, time_diffs,
                  target_q_values, critic_predictions, pre, critic_step_grad,
                  train_steps, result>>

\* ActorNet(layers, activations, fl_init)
NewActorNet ==
    /\ net' = [kind |-> "ActorNet", net |-> ActorNet(layers)]
    /\ UNCHANGED <<trainer_vars, layers, action_dim>>

\* CriticNet(layers, activations, fl_init, action_dim)
NewCriticNet ==
    /\ net' = [kind |-> "CriticNet", net |-> CriticNet(layers, action_dim)]
    /\ UNCHANGED <<trainer_vars, layers, action_dim>>

NetNext == NewActorNet \/ NewCriticNet

SpecNet == NetInit /\ [][NetNext]_vars

\* ================================================================== claims
\* What the claims below read from the batch of the train call in progress: the
\* field at a position counted from 1.
FieldOf(pos, i) == training_samples[pos][i]

\* Q_target(next_state_i, Actor_target(next_state_i)) for sample i of the batch in
\* progress, with next_state at position 4
QTargetOf(i) ==
    CriticForward(critic_target, FieldOf(4, i) * Unit,
                  ActorForward(actor_target, FieldOf(4, i) * Unit))

Computing == pc \in {"critic_step", "actor_step", "soft_update"}

C2_SoftUpdate ==
    [][pc = "soft_update" =>
          /\ actor' = actor
          /\ critic' = critic
          /\ Len(actor_target') = Len(actor_target)
          /\ Len(critic_target') = Len(critic_target)
          /\ \A k \in 1..Len(actor_target) : \A j \in 1..Len(actor_target[k]) :
                tau[2] * actor_target'[k][j]
                  = tau[1] * actor[k][j] + (tau[2] - tau[1]) * actor_target[k][j]
          /\ \A k \in 1..Len(critic_target) : \A j \in 1..Len(critic_target[k]) :
                tau[2] * critic_target'[k][j]
                  = tau[1] * critic[k][j] + (tau[2] - tau[1]) * critic_target[k][j]
          /\ (tau[1] = tau[2] => actor_target' = actor /\ critic_target' = critic)
          /\ (tau[1] = 0 => actor_target' = actor_target
                            /\ critic_target' = critic_target)]_vars

\* C2 witness: a blend with 0 < tau < 1 has moved both targets, to values that are
\* neither the old target nor the live network
C2_Witness ==
    /\ pc = "report"
    /\ tau[1] # 0
    /\ tau[1] # tau[2]
    /\ actor_target # pre.actor_target
    /\ actor_target # actor
    /\ critic_target # pre.critic_target
    /\ critic_target # critic

\* C3: after a call of get_noise the internal state of the noise process is the
\* vector the call returned.
C3_StateIsLastSample ==
    result.op = "get_noise" => noise = result.value

\* The action internal_prediction returns for the value a (actor output plus
\* noise, over PredDen) under the configured range
ExpectedAction(a) ==
    IF action_range = <<>> THEN a
    ELSE IF a > PredDen THEN action_range[1] * PredDen
    ELSE IF a < 0 - PredDen THEN 0 - (action_range[1] * PredDen)
    ELSE action_range[1] * a

\* The actor's output for row i of the states of the last internal_prediction
RawAction(i) == ActorForward(actor, result.states[i][1] * Unit) * NoiseDen

Returned == result.op = "internal_prediction" /\ result.status = "returned"

\* C4 as claimed: a noisy internal_prediction takes one sample from the noise
\* process for the whole call and adds it to every row; without noisy it takes none.
C4_OneSharedSample ==
    Returned =>
        IF result.noisy
        THEN /\ Len(result.samples) = 1
             /\ \A i \in 1..Len(result.states) :
                   result.actions[i]
                     = ExpectedAction(RawAction(i) + result.samples[1][1] * Unit)
        ELSE result.samples = <<>>

\* C4 as amended: a noisy internal_prediction on n rows calls get_noise n times,
\* once per row in row order, and adds the i-th returned vector to row i; without
\* noisy it takes no sample and the rows are the actor's outputs.
C4_OneSamplePerRow ==
    Returned =>
        IF result.noisy
        THEN /\ Len(result.samples) = Len(result.states)
             /\ \A i \in 1..Len(result.states) :
                   result.actions[i]
                     = ExpectedAction(RawAction(i) + result.samples[i][1] * Unit)
        ELSE /\ result.samples = <<>>
             /\ \A i \in 1..Len(result.states) :
                   result.actions[i] = ExpectedAction(RawAction(i))

\* C4 witness: a noisy prediction on two rows whose rows got different samples
C4_Witness ==
    /\ Returned
    /\ result.noisy
    /\ Len(result.states) = 2
    /\ result.samples[1] # result.samples[2]

C7_FailsFast ==
    (result.op = "train" /\ result.status = "AssertionError") =>
        /\ actor = pre.actor
        /\ actor_target = pre.actor_target
        /\ critic = pre.critic
        /\ critic_target = pre.critic_target
        /\ ~result.reported

\* C8: a constructor given fewer than three layers fails and builds nothing; given
\* at least three it builds len(layers) - 1 linear layers, layer i from layers[i]
\* to layers[i+1], the critic's second layer from layers[1] + action_dim.
C8_LayerSchema ==
    net.kind \in {"ActorNet", "CriticNet"} =>
        IF Len(layers) < 3
        THEN ~net.net.ok /\ net.net.layers = <<>>
        ELSE /\ net.net.ok
             /\ Len(net.net.layers) = Len(layers) - 1
             /\ \A i \in 1..(Len(layers) - 1) :
                   /\ net.net.layers[i].out_features = layers[i + 1]
                   /\ net.net.layers[i].in_features =
                         IF net.kind = "CriticNet" /\ i = 2
                         THEN layers[i] + action_dim
                         ELSE layers[i]

\* C8 witness: a critic built from four layers
C8_Witness ==
    /\ net.kind = "CriticNet"
    /\ Len(layers) = 4
    /\ net.net.ok
    /\ Len(net.net.layers) = 3

\* C9: once a call of internal_prediction has ended the actor is in training mode,
\* and every train step runs with the actor in training mode.
C9_TrainingModeRestored ==
    /\ (result.op = "internal_prediction" => actor_training)
    /\ (pc # "idle" => actor_training)

\* C10: the critic's parameters change only in the critic optimizer's step and the
\* actor's only in the actor optimizer's step, and every critic optimizer step uses
\* the gradient of the critic loss alone.
C10_CriticGradient ==
    /\ [](critic_step_grad \subseteq {"loss_critic"})
    /\ [][(critic' # critic => pc = "critic_step")
            /\ (actor' # actor => pc = "actor_step")]_vars

\* C10 witness: the second train call's critic step has acted, after the first
\* call's actor loss left its gradient on the critic
C10_Witness ==
    /\ pc = "actor_step"
    /\ train_steps = 2
    /\ critic # pre.critic
    /\ critic_step_grad = {"loss_critic"}
    /\ "loss_actor" \in actor_grad

\* One blend of the target old with the live network, element by element
Blended(new, live, old) ==
    /\ Len(new) = Len(old)
    /\ \A k \in 1..Len(old) :
          /\ Len(new[k]) = Len(old[k])
          /\ \A j \in 1..Len(old[k]) :
                tau[2] * new[k][j]
                  = tau[1] * live[k][j] + (tau[2] - tau[1]) * old[k][j]

\* C11: the targets equal the live networks until the first train step and never
\* share storage with them; a target changes in the soft update step only (not in
\* an optimizer step, not in internal_prediction); while a train step computes the
\* targets are those it began with, and once its soft update is done each target
\* is exactly one blend, with tau, of the target it began with and the live network
\* as both optimizer steps left it.
C11_TargetsOnlyBlended ==
    /\ [](/\ ~Shares("actor", "actor_target")
          /\ ~Shares("critic", "critic_target")
          /\ (train_steps = 0 => actor_target = actor /\ critic_target = critic)
          /\ (Computing => /\ actor_target = pre.actor_target
                           /\ critic_target = pre.critic_target)
          /\ (pc \in {"report", "idle"} /\ train_steps > 0 =>
                 /\ Blended(actor_target, actor, pre.actor_target)
                 /\ Blended(critic_target, critic, pre.critic_target)))
    /\ [][(actor_target' # actor_target \/ critic_target' # critic_target)
             => pc = "soft_update"]_vars

\* C11 witness: after two train steps and an internal_prediction, with
\* 0 < tau < 1, both targets differ from the targets the last step began with,
\* from the live networks and from the live networks that step began with
C11_Witness ==
    /\ pc = "idle"
    /\ train_steps = 2
    /\ result.op = "internal_prediction"
    /\ tau[1] # 0
    /\ tau[1] # tau[2]
    /\ actor # pre.actor
    /\ critic # pre.critic
    /\ actor_target \notin {pre.actor_target, actor, pre.actor}
    /\ critic_target \notin {pre.critic_target, critic, pre.critic}

====
